---- MODULE Spec2Model ----
(***************************************************************************)
(* Model of the AutoTestGen_MAPS requirement pipeline:                     *)
(*   ElicitationAgent (customer text -> customer requirements -> SYS.1),   *)
(*   Sys2Agent        (SYS.1 -> SYS.2, mention links),                     *)
(*   the Flask session store of app.py and its edit / status handlers.     *)
(*                                                                         *)
(* A text is a sequence of tokens.  The token " " stands for a run of      *)
(* whitespace; between two adjacent word tokens one blank is implied.      *)
(* A raw upload is a sequence of lines, each line a text.                  *)
(***************************************************************************)
EXTENDS Integers, Sequences, FiniteSets, TLC

VARIABLES
    customer_reqs,   \* session['customer_elicitation_requirements']
    sys1_reqs,       \* session['sys1_elicitation_requirements']
    sys1_file,       \* Inputs/sys1_requirements.xlsx: [exists, rows]
    sys2_reqs,       \* session['sys2_requirements']
    dependencies,    \* session['dependencies']
    last,            \* the handler that ran last, its input and its answer
    call,            \* the last direct call of an agent: [method, input, result]
    agent4_requirements,  \* session['agent4_requirements']
    agent4_test_cases     \* session['agent4_test_cases']

vars ==
    <<customer_reqs, sys1_reqs, sys1_file, sys2_reqs, dependencies, last, call,
      agent4_requirements, agent4_test_cases>>

(***************************************************************************)
(* Bounds of the model.                                                    *)
(***************************************************************************)
MaxLines == 3        \* lines of a raw SYS.1 text
MaxRows == 1         \* rows of an uploaded SYS.1 sheet
MaxTokens == 2       \* tokens of a requirement text given to an agent
MaxExtractLines == 3 \* lines of a customer text given to the extractor
MaxBatch == 3        \* requirements of a batch given to the SYS.2 agent
MaxCases == 2        \* rows of the reviewed sheet, requirements of a generation

(***************************************************************************)
(* Program constants.                                                      *)
(***************************************************************************)
min_sys1_count == 10

(***************************************************************************)
(* Generic helpers.                                                        *)
(***************************************************************************)
Range(s) == {s[i] : i \in 1..Len(s)}

SeqsUpTo(S, n) == UNION {[1..k -> S] : k \in 0..n}

RECURSIVE Flatten(_)
Flatten(ss) == IF ss = <<>> THEN <<>> ELSE Head(ss) \o Flatten(Tail(ss))

\* req.get(key, default)
dict_get(req, key, default) ==
    IF key \in DOMAIN req THEN req[key] ELSE default

\* for field, value in updates.items(): req[field] = value
dict_update(req, updates) ==
    [f \in DOMAIN req \cup DOMAIN updates |->
        IF f \in DOMAIN updates THEN updates[f] ELSE req[f]]

(***************************************************************************)
(* Python string operations on token texts.                                *)
(***************************************************************************)
IsSpace(tok) == tok = " "

\* str.lstrip / str.rstrip / str.strip
RECURSIVE lstrip(_)
lstrip(text) ==
    IF text # <<>> /\ IsSpace(Head(text)) THEN lstrip(Tail(text)) ELSE text

RECURSIVE rstrip(_)
rstrip(text) ==
    IF text # <<>> /\ IsSpace(text[Len(text)])
    THEN rstrip(SubSeq(text, 1, Len(text) - 1))
    ELSE text

\* changed: nothing is trimmed
no_strip(text) == text

strip(text) == rstrip(lstrip(text))

\* str.lower / str.upper on one token, for the tokens the model uses
lower_tok(tok) ==
    CASE tok = "SYS.1.A" -> "sys.1.a"
      [] tok = "SYS.2.B" -> "sys.2.b"
      [] tok = "SYS.1.A," -> "sys.1.a,"
      [] tok = "SYS.1.Raw_1" -> "sys.1.raw_1"
      [] tok = "CUST_REQ-009" -> "cust_req-009"
      [] tok = "Cust_Req-x" -> "cust_req-x"
      [] OTHER -> tok

upper_tok(tok) ==
    CASE tok = "start" -> "START"
      [] tok = "cust_req-009" -> "CUST_REQ-009"
      [] tok = "Cust_Req-x" -> "CUST_REQ-X"
      [] tok = "note" -> "NOTE"
      [] tok = "sys.1.a" -> "SYS.1.A"
      [] OTHER -> tok

lower(text) == [i \in 1..Len(text) |-> lower_tok(text[i])]

\* format(n, '03d')
Digit == <<"0", "1", "2", "3", "4", "5", "6", "7", "8", "9">>

Fmt03(n) ==
    IF n < 1000
    THEN Digit[((n \div 100) % 10) + 1] \o Digit[((n \div 10) % 10) + 1]
         \o Digit[(n % 10) + 1]
    ELSE ToString(n)

(***************************************************************************)
(* Keyword tests on texts.                                                 *)
(***************************************************************************)
\* The keywords of the rule sets that occur in the lower-cased token
\* ("keyword in text.lower()"), for the tokens the model uses.  The rule
\* sets are those of _determine_type, of both _assign_priority, of
\* _map_verification, of _check_compliance and of _analyze_linguistics, and
\* the label test of _determine_classification.  No keyword spans two tokens
\* of a text the model builds.
keywords_in(tok) ==
    CASE tok = "The system shall" -> {"shall", "system"}
      [] tok = "It is assumed that" -> {"assume", "it"}
      [] tok = "The system is subject to the constraint that" ->
             {"constraint", "system"}
      [] tok = "[Review: Potential ambiguity marker detected.]" ->
             {"review", "it"}
      [] tok = "implement the capability to" -> {"it"}
      [] tok = "- Add specific behavior/conditions here]." -> {"it"}
      [] tok = "shall" -> {"shall"}
      [] tok = "should" -> {"should"}
      [] tok = "may" -> {"may"}
      [] tok = "assume" -> {"assume"}
      [] tok = "limit" -> {"limit", "it"}
      [] tok = "critical" -> {"critical", "it"}
      [] tok = "important" -> {"important"}
      [] tok = "optional" -> {"optional"}
      [] tok = "verify" -> {"verify"}
      [] tok = "system test" -> {"system test", "test", "system"}
      [] tok = "analysis" -> {"analysis"}
      [] tok = "review" -> {"review"}
      [] tok = "shall be tested" -> {"shall be tested", "shall", "test"}
      [] tok = "can be measured" -> {"can be measured"}
      [] tok = "milliseconds" -> {"milliseconds", "seconds"}
      [] tok = "%" -> {"%"}
      [] tok = "flexible" -> {"flexible"}
      [] tok = "robust" -> {"robust"}
      [] tok = "it" -> {"it"}
      [] tok = "they" -> {"they"}
      [] tok = "with" -> {"it"}
      [] tok = "[Technical Review: checked]" -> {"review", "check"}
      [] OTHER -> {}

\* the keywords that occur in a text
text_keywords(text) == UNION {keywords_in(text[i]) : i \in 1..Len(text)}

contains_any(text, keywords) ==
    \E i \in 1..Len(text) : keywords_in(text[i]) \cap keywords # {}

(***************************************************************************)
(* ElicitationAgent (agents/intake_agent.py).                              *)
(***************************************************************************)
cust_id(i) == "CUST_REQ-" \o Fmt03(i)

sys1_id_of(n) == "SYS.1-" \o Fmt03(n)

\* parts[0].strip().upper().startswith('CUST_REQ-')
startswith_CUST_REQ(text) ==
    /\ text # <<>>
    /\ upper_tok(text[1]) \in {"CUST_REQ-009", "CUST_REQ-X"}

\* position of the first ':' of a line, 0 when there is none
RECURSIVE find_colon(_, _)
find_colon(line, i) ==
    IF i > Len(line) THEN 0
    ELSE IF line[i] = ":" THEN i ELSE find_colon(line, i + 1)

\* the stored text of one stripped, non-empty line
customer_req_text(line) ==
    LET c == find_colon(line, 1) IN
    IF c # 0 /\ startswith_CUST_REQ(strip(SubSeq(line, 1, c - 1)))
    THEN strip(SubSeq(line, c + 1, Len(line)))
    ELSE line

\* changed: blank lines are kept
stripped_lines(lines) == [i \in 1..Len(lines) |-> strip(lines[i])]

\* lines = [line.strip() for line in doc.text.split('\n') if line.strip()]
nonempty_lines(lines) ==
    LET stripped == [i \in 1..Len(lines) |-> strip(lines[i])]
    IN  SelectSeq(stripped, LAMBDA l : l # <<>>)

_extract_customer_requirements(all_text) ==
    LET lines == nonempty_lines(all_text) IN
    [i \in 1..Len(lines) |->
        [customer_id |-> cust_id(i),
         customer_requirement |-> customer_req_text(lines[i])]]

\* The action phrase of one customer text.  root_phrase is the answer of the
\* Text Analysis Port: the positions of the root verb and of its selected
\* children, <<>> when the parse has no root verb.
action_phrase(customer_text, root_phrase) ==
    IF root_phrase # <<>>
    THEN [k \in 1..Len(root_phrase) |-> customer_text[root_phrase[k]]]
    ELSE <<"implement the capability to">> \o lower(customer_text)

sys1_text(customer_text, root_phrase) ==
    <<"The system shall">> \o action_phrase(customer_text, root_phrase)
        \o <<". [Derived from:">> \o customer_text
        \o <<"- Add specific behavior/conditions here].">>

\* the record appended for one customer requirement (lines 148-158)
Sys1Record(n, cust, root_phrase) ==
    [sys1_id |-> sys1_id_of(n),
     sys1_requirement |-> sys1_text(cust.customer_requirement, root_phrase),
     customer_trace_ids |-> <<cust.customer_id>>,
     req_status |-> "Draft",
     customer_id |-> cust.customer_id,
     customer_requirement |-> cust.customer_requirement]

\* the record appended by the padding loop (lines 163-174)
PaddedSys1Record(n) ==
    [sys1_id |-> sys1_id_of(n),
     sys1_requirement |-> <<>>,
     customer_trace_ids |-> <<>>,
     req_status |-> "Draft"]

\* the main loop: one SYS.1 per customer requirement with a non-empty text
RECURSIVE derive_sys1(_, _, _, _)
derive_sys1(custs, parses, i, counter) ==
    IF i > Len(custs) THEN <<>>
    ELSE IF custs[i].customer_requirement # <<>>
         THEN <<Sys1Record(counter, custs[i], parses[i])>>
              \o derive_sys1(custs, parses, i + 1, counter + 1)
         ELSE derive_sys1(custs, parses, i + 1, counter)

\* while len(sys1_requirements) < min_sys1_count: append a padded record
RECURSIVE pad_sys1(_)
pad_sys1(reqs) ==
    IF Len(reqs) < min_sys1_count
    THEN pad_sys1(Append(reqs, PaddedSys1Record(Len(reqs) + 1)))
    ELSE reqs

_generate_sys1_requirements(custs, parses) ==
    pad_sys1(derive_sys1(custs, parses, 1, 1))

\* ElicitationAgent._assign_priority
ElicitationAgent_assign_priority(requirement_text) ==
    IF contains_any(requirement_text, {"must", "shall", "critical", "safety"})
    THEN "High"
    ELSE IF contains_any(requirement_text, {"should", "important"})
    THEN "Medium"
    ELSE IF contains_any(requirement_text,
                         {"could", "nice to have", "optional"})
    THEN "Low"
    ELSE "Medium"

\* ElicitationAgent.process, lines 44-47: the priority and the status
\* written on every record
ElicitationStatus(req) ==
    dict_update(req,
                [priority |->
                     ElicitationAgent_assign_priority(req.sys1_requirement),
                 req_status |-> "Draft"])

ElicitationAgent_process(all_text, parses) ==
    LET custs == _extract_customer_requirements(all_text)
        reqs == _generate_sys1_requirements(custs, parses)
    IN  [status |-> "success",
         customer_requirements |-> custs,
         sys1_requirements |-> [i \in 1..Len(reqs) |-> ElicitationStatus(reqs[i])]]

(***************************************************************************)
(* Sys2Agent (agents/sys2_agent.py).                                       *)
(***************************************************************************)
_determine_type(content) ==
    IF contains_any(content, {"shall", "must", "will"}) THEN "Functional"
    ELSE IF contains_any(content, {"should", "may"}) THEN "Non-functional"
    ELSE IF contains_any(content, {"assume", "assuming", "assumption"})
         THEN "Assumption"
    ELSE IF contains_any(content, {"constraint", "limit", "restrict"})
         THEN "Constraint"
    ELSE "Other"

\* self.templates.get(req_type.lower(), "{requirement}").format(...)
_apply_single_template(requirement_text, req_type) ==
    CASE req_type = "Functional" -> <<"The system shall">> \o requirement_text
      [] req_type = "Assumption" -> <<"It is assumed that">> \o requirement_text
      [] req_type = "Constraint" ->
             <<"The system is subject to the constraint that">>
                 \o requirement_text
      [] OTHER -> requirement_text   \* 'non-functional' and 'other': no key

ambiguity_markers == {"may", "can", "might", "possibly", "usually", "generally"}

\* Sys2Agent._assign_priority
Sys2Agent_assign_priority(requirement_text) ==
    IF contains_any(requirement_text, {"critical", "essential"}) THEN "High"
    ELSE IF contains_any(requirement_text, {"important", "should"})
    THEN "Medium"
    ELSE "Low"

\* Sys2Agent._map_verification
_map_verification(sys2_id, requirement_text) ==
    IF contains_any(requirement_text,
                    {"system test", "qualification test", "acceptance test"})
    THEN "System Qualification Test (SYS.5)"
    ELSE IF contains_any(requirement_text,
                         {"test", "verify", "validate", "check"})
    THEN "Test"
    ELSE IF contains_any(requirement_text, {"analyze", "analysis", "study"})
    THEN "Analysis"
    ELSE IF contains_any(requirement_text,
                         {"inspect", "inspection", "review"})
    THEN "Inspection"
    ELSE "Test (Default)"

\* parse is the answer of the Text Analysis Port for the text:
\*   raises     - the port fails on the text (self.nlp raises)
\*   passive    - a nsubjpass token whose head has an auxpass child
\*   head_verb  - the head of the first nsubjpass token is a VERB
\*   classifier - the answer of the text-classification pipeline for the
\*                drafted text: [loaded, raises, results]
_technically_evaluate_and_rewrite(sys1_requirement_text, parse) ==
    LET ambiguity ==
            \E i \in 1..Len(sys1_requirement_text) :
                lower_tok(sys1_requirement_text[i]) \in ambiguity_markers
        core == strip(sys1_requirement_text)
        rewritten ==
            IF parse.passive
            THEN (IF parse.head_verb THEN <<"[Passive voice considered]">>
                                     ELSE <<"[Passive voice detected]">>)
                 \o core
            ELSE core
        noted ==
            IF ambiguity
            THEN rewritten
                 \o <<"[Review: Potential ambiguity marker detected.]">>
            ELSE rewritten
    IN  _apply_single_template(noted, _determine_type(sys1_requirement_text))

\* None, and 'None' where an f-string formats it
None == "None"

\* self.classifier is None (the pipeline could not be loaded, lines 28-32)
NotLoaded == [loaded |-> FALSE, raises |-> FALSE, results |-> <<>>]

\* the keywords of the label test that occur in label.lower()
label_keywords(label) ==
    CASE label = "functional" -> {"functional"}
      [] label = "Non-Functional" -> {"functional", "non-functional"}
      [] label = "performance" -> {"performance"}
      [] label = "assumption" -> {"assumption"}
      [] label = "system constraint" -> {"system", "constraint"}
      [] label = "limit" -> {"limit"}
      [] OTHER -> {}

\* classifier is the answer of self.classifier(requirement_text).  When the
\* pipeline answers with an empty result no return statement is reached.
_determine_classification(requirement_text, classifier) ==
    IF ~classifier.loaded THEN _determine_type(requirement_text)
    ELSE IF classifier.raises THEN _determine_type(requirement_text)
    ELSE IF classifier.results = <<>> THEN None
    ELSE LET label == label_keywords(classifier.results[1].label) IN
         IF label \cap {"functional", "system"} # {} THEN "Functional"
         ELSE IF label \cap {"non-functional", "performance", "security",
                             "usability"} # {}
         THEN "Non-functional"
         ELSE IF label \cap {"assumption", "assume"} # {} THEN "Assumption"
         ELSE IF label \cap {"constraint", "restrict", "limit"} # {}
         THEN "Constraint"
         ELSE "Other"

\* re.search(r' \[Technical Review: (.*?)\]', drafted_sys2_text): the notes
\* of the first match, <<>> if there is none.  The pattern starts with a
\* space, so it does not match at the start of the text.
technical_review_notes(drafted_sys2_text) ==
    IF \E i \in 2..Len(drafted_sys2_text) :
           drafted_sys2_text[i] = "[Technical Review: checked]"
    THEN <<"checked">>
    ELSE <<>>

\* " ".join(rationale_parts)
join_space(rationale_parts) == Flatten(rationale_parts)

_generate_rationale(sys1_id, original_sys1_text, drafted_sys2_text, classification, verification_mapping) ==
    LET review_notes == technical_review_notes(drafted_sys2_text) IN
    join_space(
        << <<"Derived from SYS.1 requirement", sys1_id, ".">>,
           <<"Original text:">> \o original_sys1_text >>
        \o (IF review_notes # <<>>
            THEN << <<"Technical review noted:">> \o review_notes \o <<".">> >>
            ELSE <<>>)
        \o << <<"Classified as:", classification, ".">>,
              <<"Verification method:", verification_mapping, ".">> >>)

\* re.findall(r'(SYS\.[12]\.\w+)', tok): what the pattern finds in one token.
\* "SYS.2-001" and "SYS.1-001" have no '.' after the level and do not match;
\* the pattern is case-sensitive.
re_findall_tier_id(tok) ==
    CASE tok = "SYS.1.A" -> <<"SYS.1.A">>
      [] tok = "SYS.1.A," -> <<"SYS.1.A">>
      [] tok = "SYS.2.B" -> <<"SYS.2.B">>
      [] tok = "SYS.1.Raw_1" -> <<"SYS.1.Raw_1">>
      [] OTHER -> <<>>

potential_ids_in_text(text) ==
    Flatten([i \in 1..Len(text) |-> re_findall_tier_id(text[i])])

\* the list built by the loop of lines 477-484
mention_links(sys2_id, text) ==
    LET ids == SelectSeq(potential_ids_in_text(text),
                         LAMBDA dep_id : dep_id # sys2_id)
    IN  [i \in 1..Len(ids) |->
            [from |-> sys2_id, to |-> ids[i], label |-> "mentions"]]

\* changed: every link found is kept, repeated mentions included
keep_all(links) == links

\* unique_dependencies = set(...): each link once
RECURSIVE unique_dependencies(_)
unique_dependencies(links) ==
    IF links = <<>> THEN <<>>
    ELSE LET rest == unique_dependencies(SubSeq(links, 1, Len(links) - 1))
             l == links[Len(links)]
         IN  IF l \in Range(rest) THEN rest ELSE Append(rest, l)

\* The links of one requirement.  The code returns them in the iteration
\* order of a Python set; Orderings gives every order that can come out.
_map_single_requirement_dependencies(sys2_id, requirement_text) ==
    unique_dependencies(mention_links(sys2_id, requirement_text))

Orderings(links) ==
    {[i \in 1..Len(links) |-> links[p[i]]] :
        p \in {q \in [1..Len(links) -> 1..Len(links)] :
                 \A i, j \in 1..Len(links) : i # j => q[i] # q[j]}}

\* changed: the counter is not used, every requirement takes the first id
sys2_id_first(counter) == "SYS.2-" \o Fmt03(1)

\* f'SYS.2-{sys2_counter:03d}' (line 122)
sys2_id_of(counter) == "SYS.2-" \o Fmt03(counter)

\* changed: the new record takes the status 'Reviewed'
Sys2Record_reviewed(sys1_id, original_sys1_text, sys2_id, drafted_sys2_text, rationale) ==
    [sys1_id |-> sys1_id,
     sys1_requirement |-> original_sys1_text,
     sys2_id |-> sys2_id,
     sys2_requirement |-> drafted_sys2_text,
     priority |-> Sys2Agent_assign_priority(original_sys1_text),
     rationale |-> rationale,
     type |-> _determine_type(original_sys1_text),
     classification |-> "Functional",
     verification_mapping |-> "System Qualification Test (SYS.5)",
     req_status |-> "Reviewed"]

\* the record appended for one SYS.1 requirement (lines 169-183);
\* classification and verification_mapping are the literals of lines 144
\* and 163
Sys2Record(sys1_id, original_sys1_text, sys2_id, drafted_sys2_text, rationale) ==
    [sys1_id |-> sys1_id,
     sys1_requirement |-> original_sys1_text,
     sys2_id |-> sys2_id,
     sys2_requirement |-> drafted_sys2_text,
     priority |-> Sys2Agent_assign_priority(original_sys1_text),
     rationale |-> rationale,
     type |-> _determine_type(original_sys1_text),
     classification |-> "Functional",
     verification_mapping |-> "System Qualification Test (SYS.5)",
     req_status |-> "Draft"]

\* A spreadsheet cell: empty (pandas reads NaN) or a value.
EmptyIdCell == [nan |-> TRUE, v |-> ""]
EmptyTextCell == [nan |-> TRUE, v |-> <<>>]
IdCell(id) == [nan |-> FALSE, v |-> id]
TextCell(text) == [nan |-> FALSE, v |-> text]

\* str(req.get(k, '')) if req.get(k) is not None else ''   (lines 232-233)
id_of_cell(cell) == IF cell.nan THEN "" ELSE cell.v
text_of_cell(cell) == IF cell.nan THEN <<>> ELSE cell.v

\* raw_content.strip().split('\n'): blank lines at both ends are dropped
IsBlankLine(line) == strip(line) = <<>>

RECURSIVE drop_leading_blank(_)
drop_leading_blank(lines) ==
    IF lines # <<>> /\ IsBlankLine(Head(lines))
    THEN drop_leading_blank(Tail(lines))
    ELSE lines

RECURSIVE drop_trailing_blank(_)
drop_trailing_blank(lines) ==
    IF lines # <<>> /\ IsBlankLine(lines[Len(lines)])
    THEN drop_trailing_blank(SubSeq(lines, 1, Len(lines) - 1))
    ELSE lines

strip_split(raw_content) == drop_trailing_blank(drop_leading_blank(raw_content))

raw_id(i) == "SYS.1.Raw_" \o ToString(i)

\* the loop of lines 244-249; i counts the lines of the stripped content from 0
RECURSIVE read_raw_lines(_, _)
read_raw_lines(lines, i) ==
    IF i >= Len(lines) THEN <<>>
    ELSE (IF strip(lines[i + 1]) # <<>>
          THEN <<[id |-> raw_id(i + 1), text |-> strip(lines[i + 1])]>>
          ELSE <<>>)
         \o read_raw_lines(lines, i + 1)

\* input_data: [source, file |-> [exists, readable, rows], raw_content]
\* answer: [raised, reqs]; reqs are [id, text] for the keys
\* 'SYS.1 Req. ID' and 'SYS.1 System Requirement'
_read_sys1_input(input_data) ==
    IF input_data.source \in {"upload", "automatic"}
    THEN IF ~input_data.file.exists
         THEN [raised |-> "FileNotFoundError", reqs |-> <<>>]
         ELSE IF ~input_data.file.readable
         THEN [raised |-> "IOError", reqs |-> <<>>]
         ELSE LET rows == input_data.file.rows
                  read == [i \in 1..Len(rows) |->
                              [id |-> id_of_cell(rows[i].id),
                               text |-> text_of_cell(rows[i].text)]]
              IN  [raised |-> "",
                   reqs |-> SelectSeq(read, LAMBDA r : strip(r.text) # <<>>)]
    ELSE IF input_data.source = "raw_text"
    THEN LET read == IF strip_split(input_data.raw_content) # <<>>
                     THEN read_raw_lines(strip_split(input_data.raw_content), 0)
                     ELSE <<>>
         IN  [raised |-> "",
              reqs |-> SelectSeq(read, LAMBDA r : strip(r.text) # <<>>)]
    ELSE [raised |-> "", reqs |-> <<>>]

\* The loop of process_sys1_input (lines 111-183) from requirement i on:
\* for every emitted requirement its record and its links.  Every requirement
\* read carries the key 'SYS.1 Req. ID', so the AutoGen default never applies.
RECURSIVE derive_sys2(_, _, _, _)
derive_sys2(reqs, parses, i, sys2_counter) ==
    IF i > Len(reqs) THEN <<>>
    ELSE IF strip(reqs[i].text) = <<>>
         THEN derive_sys2(reqs, parses, i + 1, sys2_counter)
         ELSE LET sys2_id == sys2_id_of(sys2_counter)
                  drafted == _technically_evaluate_and_rewrite(reqs[i].text,
                                                               parses[i])
                  rationale ==
                      _generate_rationale(
                          reqs[i].id, reqs[i].text, drafted,
                          _determine_classification(drafted,
                                                    parses[i].classifier),
                          _map_verification(sys2_id, drafted))
              IN  <<[req |-> Sys2Record(reqs[i].id, reqs[i].text, sys2_id,
                                        drafted, rationale),
                     links |-> _map_single_requirement_dependencies(sys2_id,
                                                                    drafted)]>>
                  \o derive_sys2(reqs, parses, i + 1, sys2_counter + 1)

\* every dependency list the run can return: per requirement, its links in
\* some order
RECURSIVE dependency_lists(_)
dependency_lists(derived) ==
    IF derived = <<>> THEN {<<>>}
    ELSE {first \o rest : first \in Orderings(Head(derived).links),
                          rest \in dependency_lists(Tail(derived))}

\* the dict filled per emitted requirement (lines 145 and 164)
results_by_id(derived, key) ==
    [id \in {derived[i].req.sys2_id : i \in 1..Len(derived)} |->
        (CHOOSE r \in {derived[i].req : i \in 1..Len(derived)} :
             r.sys2_id = id)[key]]

\* an exception raised anywhere in the try block (lines 98-199) is caught at
\* lines 201-206 and ends the run
ErrorResult ==
    [status |-> "error", sys2_requirements |-> <<>>, dependencies |-> <<>>,
     classification |-> <<>>, verification_mapping |-> <<>>]

\* changed: the id counter starts where an earlier run may have left it
process_sys1_input_kept_counter(input_data, parses) ==
    LET read == _read_sys1_input(input_data) IN
    IF read.raised # "" \/ \E i \in 1..Len(read.reqs) : parses[i].raises
    THEN {ErrorResult}
    ELSE {LET derived == derive_sys2(read.reqs, parses, 1, start) IN
          [status |-> "success",
           sys2_requirements |-> [i \in 1..Len(derived) |-> derived[i].req],
           dependencies |-> <<>>,
           classification |-> results_by_id(derived, "classification"),
           verification_mapping |->
               results_by_id(derived, "verification_mapping")] :
             start \in {1, 2}}

\* the answers process_sys1_input can give
process_sys1_input(input_data, parses) ==
    LET read == _read_sys1_input(input_data)
        derived == derive_sys2(read.reqs, parses, 1, 1)
    IN  IF read.raised # ""
        THEN {ErrorResult}
        ELSE IF \E i \in 1..Len(read.reqs) : parses[i].raises
        THEN {ErrorResult}
        ELSE {[status |-> "success",
               sys2_requirements |-> [i \in 1..Len(derived) |-> derived[i].req],
               dependencies |-> deps,
               classification |-> results_by_id(derived, "classification"),
               verification_mapping |->
                   results_by_id(derived, "verification_mapping")] :
                 deps \in dependency_lists(derived)}

(***************************************************************************)
(* ReviewAgent (agents/review_agent.py).  A requirement is a dict with the *)
(* keys sys2_id and sys2_requirement, and req_status when it has one.      *)
(***************************************************************************)
\* file: [exists, readable, rows]; answer: [raised, requirements].  A missing
\* file raises FileNotFoundError inside the method, which passes on it and
\* returns the empty list (lines 153-157); other exceptions are raised again.
_read_requirements_from_excel(file) ==
    IF ~file.exists THEN [raised |-> "", requirements |-> <<>>]
    ELSE IF ~file.readable THEN [raised |-> "Exception", requirements |-> <<>>]
    ELSE IF file.rows = <<>> THEN [raised |-> "ValueError", requirements |-> <<>>]
    ELSE [raised |-> "", requirements |-> file.rows]

\* req.get('sys2_id', req.get('id', 'Unknown_ID'))
req_id_of(req) == dict_get(req, "sys2_id", dict_get(req, "id", "Unknown_ID"))

\* req.get('sys2_requirement', req.get('content', ''))
req_text_of(req) ==
    dict_get(req, "sys2_requirement", dict_get(req, "content", <<>>))

verification_phrases ==
    {"shall be tested", "shall be verified", "can be measured",
     "is measurable", "can be quantified"}

quantifiable_terms == {"seconds", "milliseconds", "%", "kbps", "mbps"}

PassIf(b) == IF b THEN "Pass" ELSE "Fail"

\* lines 211-213
is_verification_criteria_okay_status(req_text) ==
    PassIf(text_keywords(req_text) \cap verification_phrases # {})

\* lines 211-218
testable_status(req_text) ==
    PassIf(\/ text_keywords(req_text) \cap verification_phrases # {}
           \/ text_keywords(req_text) \cap quantifiable_terms # {})

\* changed: a testable requirement is compliant
ireb_compliant_if_testable(is_verification_criteria_okay, testable) ==
    testable

\* lines 222-223
ireb_compliant_status(is_verification_criteria_okay, testable) ==
    PassIf(is_verification_criteria_okay = "Pass" /\ testable = "Pass")

_check_compliance(requirements) ==
    [i \in 1..Len(requirements) |->
        LET req_text == req_text_of(requirements[i]) IN
        [sys2_id |-> req_id_of(requirements[i]),
         is_verification_criteria_okay |->
             is_verification_criteria_okay_status(req_text),
         testable |-> testable_status(req_text),
         ireb_compliant |->
             ireb_compliant_status(
                 is_verification_criteria_okay_status(req_text),
                 testable_status(req_text))]]

vague_terms == <<"flexible", "efficient", "robust", "appropriate", "adequate">>

ambiguous_pronouns == <<"it", "this", "they">>

\* [term for term in terms if term.lower() in req_text.lower()]
found_terms(terms, req_text) ==
    SelectSeq(terms, LAMBDA term : term \in text_keywords(req_text))

\* lines 243-260: the pronoun test runs after the vague-term test and
\* overwrites its verdict
unambiguity_status(req_text) ==
    IF found_terms(ambiguous_pronouns, req_text) # <<>> THEN "Needs Review"
    ELSE IF found_terms(vague_terms, req_text) # <<>> THEN "Fail"
    ELSE "Pass"

unambiguity_issues(req_text) ==
    (IF found_terms(vague_terms, req_text) # <<>>
     THEN << <<"Contains vague terms:">> \o found_terms(vague_terms, req_text) >>
     ELSE <<>>)
    \o (IF found_terms(ambiguous_pronouns, req_text) # <<>>
        THEN << <<"May contain ambiguous pronouns:">>
                   \o found_terms(ambiguous_pronouns, req_text) >>
        ELSE <<>>)

_analyze_linguistics(requirements) ==
    [i \in 1..Len(requirements) |->
        [sys2_id |-> req_id_of(requirements[i]),
         unambiguity |-> unambiguity_status(req_text_of(requirements[i])),
         unambiguity_issues |->
             unambiguity_issues(req_text_of(requirements[i]))]]

\* {res['sys2_id']: res for res in results}.get(req_id, {}): the last result
\* with the id
lookup(results, req_id) ==
    LET hits == {i \in 1..Len(results) : results[i].sys2_id = req_id}
    IN  results[CHOOSE i \in hits : \A j \in hits : j <= i]

\* lines 58-83, for the keys the model keeps
combined_req(req, compliance_results, linguistic_analysis_results) ==
    LET compliance_data == lookup(compliance_results, req_id_of(req))
        linguistic_data == lookup(linguistic_analysis_results, req_id_of(req))
    IN  dict_update(
            req,
            [is_verification_criteria_okay |->
                 compliance_data.is_verification_criteria_okay,
             testable |-> compliance_data.testable,
             ireb_compliant |-> compliance_data.ireb_compliant,
             unambiguity |-> linguistic_data.unambiguity,
             req_status |-> IF "req_status" \in DOMAIN req
                            THEN req.req_status ELSE "Draft"])

\* file_path.lower().endswith(('.xlsx', '.xls'))
endswith_excel(file_path) ==
    file_path \in {"sys2_requirements.xlsx", "SYS2.XLS"}

ReviewError(raised) ==
    [status |-> "error", raised |-> raised,
     sys2_requirements_for_review |-> <<>>, compliance_results |-> <<>>,
     linguistic_analysis |-> <<>>, exported |-> <<>>]

\* input_data: [requirements, file_path, file]; exported are the rows
\* written to sys2_requirements_reviewed.xlsx (lines 92-96)
ReviewAgent_process(input_data) ==
    LET read ==
            IF input_data.requirements # <<>>
            THEN [raised |-> "", requirements |-> input_data.requirements]
            ELSE IF input_data.file_path # ""
                    /\ endswith_excel(input_data.file_path)
            THEN _read_requirements_from_excel(input_data.file)
            ELSE [raised |-> "ValueError", requirements |-> <<>>]
        requirements_to_process == read.requirements
        compliance_results == _check_compliance(requirements_to_process)
        linguistic_analysis_results ==
            _analyze_linguistics(requirements_to_process)
        reviewed_requirements ==
            [i \in 1..Len(requirements_to_process) |->
                combined_req(requirements_to_process[i], compliance_results,
                             linguistic_analysis_results)]
    IN  IF read.raised # "" THEN ReviewError(read.raised)
        ELSE [status |-> "success", raised |-> "",
              sys2_requirements_for_review |-> reviewed_requirements,
              compliance_results |-> compliance_results,
              linguistic_analysis |-> linguistic_analysis_results,
              exported |-> SelectSeq(reviewed_requirements,
                                     LAMBDA r : r.req_status = "Accepted")]

(***************************************************************************)
(* TestGenAgent (agents/testgen_agent.py).  A requirement and a test case   *)
(* are dicts under the column names of the sheet.                           *)
(***************************************************************************)
\* a row of the sheet: [id, text, priority], each a cell; a column the sheet
\* lacks reads like an empty cell (lines 50-61)
loaded_row(row) ==
    ("SYS.2 Req. ID" :> id_of_cell(row.id))
    @@ ("SYS.2 System Requirement" :> text_of_cell(row.text))

\* file: [exists, readable, rows]; answer: [raised, requirements].  Only the
\* REQUIRED_COLUMNS are read, and rows with neither id nor text are dropped
load_requirements(file) ==
    IF ~file.exists
    THEN [raised |-> "FileNotFoundError", requirements |-> <<>>]
    ELSE IF ~file.readable
    THEN [raised |-> "IOError", requirements |-> <<>>]
    ELSE [raised |-> "",
          requirements |->
              SelectSeq([i \in 1..Len(file.rows) |-> loaded_row(file.rows[i])],
                        LAMBDA req_data :
                            \/ req_data["SYS.2 Req. ID"] # ""
                            \/ req_data["SYS.2 System Requirement"] # <<>>)]

\* f'SYS2-{idx}'
default_sys2_id(idx) == "SYS2-" \o ToString(idx)

\* req.get('Priority', 'Medium')
test_case_priority(req) == dict_get(req, "Priority", "Medium")

test_case(req, idx) ==
    LET sys2_id == dict_get(req, "SYS.2 Req. ID", default_sys2_id(idx))
        sys2_req == dict_get(req, "SYS.2 System Requirement", <<>>)
    IN  ("SYS.2 Req. ID" :> sys2_id)
        @@ ("SYS.2 System Requirement" :> sys2_req)
        @@ ("Test Case ID" :> "TC-" \o sys2_id)
        @@ ("Description" :> <<"Validate: ">> \o sys2_req)
        @@ ("Preconditions" :>
                <<"System is set up and ready for validation.">>)
        @@ ("Expected Results" :>
                <<"System meets the requirement: ">> \o sys2_req)
        @@ ("Priority" :> test_case_priority(req))

generate_test_cases(requirements) ==
    [idx \in 1..Len(requirements) |-> test_case(requirements[idx], idx)]

(***************************************************************************)
(* The request handlers of app.py on the session.                          *)
(***************************************************************************)
\* what the handler that ran last answered; source_ids are the SYS.1 ids its
\* input supplied
Answer(op, status, source_ids) ==
    [op |-> op, status |-> status, source_ids |-> source_ids]

\* no agent has been called directly
NoCall == [method |-> "", input |-> <<>>, result |-> <<>>]

NoFile == [exists |-> FALSE, readable |-> FALSE, rows |-> <<>>]

Init ==
    /\ customer_reqs = <<>>
    /\ sys1_reqs = <<>>
    /\ sys1_file = NoFile
    /\ sys2_reqs = <<>>
    /\ dependencies = <<>>
    /\ last = Answer("init", "", {})
    /\ call = NoCall
    /\ agent4_requirements = <<>>
    /\ agent4_test_cases = <<>>

\* index of the first record of reqs whose field key equals id, 0 if none
RECURSIVE find_by(_, _, _, _)
find_by(reqs, key, id, i) ==
    IF i > Len(reqs) THEN 0
    ELSE IF key \in DOMAIN reqs[i] /\ reqs[i][key] = id THEN i
    ELSE find_by(reqs, key, id, i + 1)

\* the rows written by the automatic export (lines 170-186); an empty text
\* is an empty cell of the sheet
sys1_only_data(sys1) ==
    [i \in 1..Len(sys1) |->
        [id |-> IdCell(sys1[i].sys1_id),
         text |-> IF sys1[i].sys1_requirement = <<>> THEN EmptyTextCell
                  ELSE TextCell(sys1[i].sys1_requirement)]]

\* POST /api/upload: all_text is the concatenated upload, as lines
upload_file(all_text, parses) ==
    LET result == ElicitationAgent_process(all_text, parses) IN
    /\ customer_reqs' = result.customer_requirements
    /\ sys1_reqs' = result.sys1_requirements
    /\ sys1_file' = IF result.sys1_requirements # <<>>
                    THEN [exists |-> TRUE, readable |-> TRUE,
                          rows |-> sys1_only_data(result.sys1_requirements)]
                    ELSE sys1_file
    /\ last' = Answer("upload_file", "success", {})
    /\ UNCHANGED <<sys2_reqs, dependencies, call,
                   agent4_requirements, agent4_test_cases>>

\* POST /api/agent1/update_status
update_requirement_status(id, new_req_status) ==
    LET i == find_by(sys1_reqs, "sys1_id", id, 1) IN
    /\ IF id = "" \/ new_req_status = "" \/ i = 0
       THEN /\ UNCHANGED sys1_reqs
            /\ last' = Answer("update_requirement_status", "error", {})
       ELSE /\ sys1_reqs' = [sys1_reqs EXCEPT ![i] =
                                dict_update(@, [req_status |-> new_req_status])]
            /\ last' = Answer("update_requirement_status", "success", {})
    /\ UNCHANGED <<customer_reqs, sys1_file, sys2_reqs, dependencies, call,
                   agent4_requirements, agent4_test_cases>>

\* POST /api/agent2/process.  request.kind is what the form carries:
\*   "file" (an uploaded sheet), "automatic_file", "raw_content", "session"
agent2_input(request) ==
    CASE request.kind = "file" ->
             [source |-> "upload", file |-> request.file, raw_content |-> <<>>]
      [] request.kind = "automatic_file" ->
             [source |-> "automatic", file |-> sys1_file, raw_content |-> <<>>]
      [] request.kind = "raw_content" ->
             [source |-> "raw_text", file |-> NoFile,
              raw_content |-> request.raw_content]
      [] OTHER ->
             [source |-> "session", file |-> NoFile, raw_content |-> <<>>]

\* the non-empty SYS.1 ids a sheet supplies; a raw text supplies none
supplied_ids(input_data) ==
    IF input_data.source \in {"upload", "automatic"}
    THEN {id_of_cell(input_data.file.rows[i].id) :
             i \in 1..Len(input_data.file.rows)} \ {""}
    ELSE {}

process_sys1_for_agent2(request, parses) ==
    /\ IF request.kind = "automatic_file" /\ ~sys1_file.exists
       THEN /\ last' = Answer("process_sys1_for_agent2", "error", {})
            /\ UNCHANGED <<sys2_reqs, dependencies>>
       ELSE \E process_result \in
                   process_sys1_input(agent2_input(request), parses) :
                /\ last' = Answer("process_sys1_for_agent2",
                                   process_result.status,
                                   supplied_ids(agent2_input(request)))
                /\ IF process_result.status = "success"
                   THEN /\ sys2_reqs' = process_result.sys2_requirements
                        /\ dependencies' = process_result.dependencies
                   ELSE UNCHANGED <<sys2_reqs, dependencies>>
    /\ UNCHANGED <<customer_reqs, sys1_reqs, sys1_file, call,
                   agent4_requirements, agent4_test_cases>>

\* POST /api/agent2/update_requirement
update_sys2_requirement(id, updates) ==
    LET i == find_by(sys2_reqs, "sys2_id", id, 1) IN
    /\ IF i = 0
       THEN /\ UNCHANGED sys2_reqs
            /\ last' = Answer("update_sys2_requirement", "error", {})
       ELSE /\ sys2_reqs' = [sys2_reqs EXCEPT ![i] = dict_update(@, updates)]
            /\ last' = Answer("update_sys2_requirement", "success", {})
    /\ UNCHANGED <<customer_reqs, sys1_reqs, sys1_file, dependencies, call,
                   agent4_requirements, agent4_test_cases>>

\* GET /api/agent4/load_sys2: file is Inputs/sys2_requirements_reviewed.xlsx
\* as it is on disk; an exception leaves the session as it was
agent4_load_sys2(file) ==
    LET loaded == load_requirements(file) IN
    /\ IF loaded.raised # ""
       THEN /\ last' = Answer("agent4_load_sys2", "error", {})
            /\ UNCHANGED <<agent4_requirements, agent4_test_cases>>
       ELSE /\ agent4_requirements' = loaded.requirements
            /\ agent4_test_cases' = generate_test_cases(loaded.requirements)
            /\ last' = Answer("agent4_load_sys2", "success", {})
    /\ UNCHANGED <<customer_reqs, sys1_reqs, sys1_file, sys2_reqs,
                   dependencies, call>>

\* testgen_agent.generate_test_cases(requirements) called on its own, once,
\* by a script
call_generate_test_cases(requirements) ==
    /\ call = NoCall
    /\ call' = [method |-> "TestGenAgent.generate_test_cases",
                input |-> requirements,
                result |-> generate_test_cases(requirements)]
    /\ UNCHANGED <<customer_reqs, sys1_reqs, sys1_file, sys2_reqs,
                   dependencies, last, agent4_requirements,
                   agent4_test_cases>>

\* elicitation_agent.process({'content': all_text, ...}) called on its own,
\* once, by a script
call_ElicitationAgent_process(all_text, parses) ==
    /\ call = NoCall
    /\ call' = [method |-> "ElicitationAgent.process",
                input |-> all_text,
                result |-> ElicitationAgent_process(all_text, parses)]
    /\ UNCHANGED <<customer_reqs, sys1_reqs, sys1_file, sys2_reqs,
                   dependencies, last,
                   agent4_requirements, agent4_test_cases>>

\* sys2_agent.process_sys1_input(input_data) called on its own, once, by a
\* script; parses are the answers of the Text Analysis Port
call_process_sys1_input(input_data, parses) ==
    /\ call = NoCall
    /\ \E result \in process_sys1_input(input_data, parses) :
           call' = [method |-> "Sys2Agent.process_sys1_input",
                    input |-> [input_data |-> input_data, parses |-> parses],
                    result |-> result]
    /\ UNCHANGED <<customer_reqs, sys1_reqs, sys1_file, sys2_reqs,
                   dependencies, last,
                   agent4_requirements, agent4_test_cases>>

\* sys2_agent.process_sys1_input(input_data) called twice by a script on the
\* same input, the port answering the same both times
call_process_sys1_input_twice(input_data, parses) ==
    /\ call = NoCall
    /\ \E first, second \in process_sys1_input(input_data, parses) :
           call' = [method |-> "Sys2Agent.process_sys1_input twice",
                    input |-> [input_data |-> input_data, parses |-> parses],
                    result |-> <<first, second>>]
    /\ UNCHANGED <<customer_reqs, sys1_reqs, sys1_file, sys2_reqs,
                   dependencies, last, agent4_requirements,
                   agent4_test_cases>>

\* sys2_agent._determine_classification(requirement_text) called on its
\* own, once; classifier is what the pipeline answers
call_determine_classification(requirement_text, classifier) ==
    /\ call = NoCall
    /\ call' = [method |-> "Sys2Agent._determine_classification",
                input |-> [requirement_text |-> requirement_text,
                           classifier |-> classifier],
                result |-> _determine_classification(requirement_text,
                                                     classifier)]
    /\ UNCHANGED <<customer_reqs, sys1_reqs, sys1_file, sys2_reqs,
                   dependencies, last, agent4_requirements,
                   agent4_test_cases>>

\* agent.process(input_data) of test_review_agent.main: the review agent
\* called on its own, once
call_ReviewAgent_process(input_data) ==
    /\ call = NoCall
    /\ call' = [method |-> "ReviewAgent.process",
                input |-> input_data,
                result |-> ReviewAgent_process(input_data)]
    /\ UNCHANGED <<customer_reqs, sys1_reqs, sys1_file, sys2_reqs,
                   dependencies, last,
                   agent4_requirements, agent4_test_cases>>

(***************************************************************************)
(* Inputs of the handlers.                                                 *)
(***************************************************************************)
\* 'Accepted' is the status ReviewAgent.process selects for export
StatusInputs == {"Draft", "Reviewed", "Approved", "Rejected", "Accepted"}

UploadLines == {<<"start">>, <<"CUST_REQ-009", ":">>}

\* the empty upload and the uploads of one line
UploadTexts == {<<>>} \cup {<<l>> : l \in UploadLines}

\* the port finds no root verb in any customer requirement of the upload
NoRootVerb(all_text) ==
    [i \in 1..Len(_extract_customer_requirements(all_text)) |-> <<>>]

\* an existing and a missing SYS.1 id
Sys1UpdateIds == {sys1_id_of(1), sys1_id_of(min_sys1_count + 1)}

SheetRows ==
    [id : {EmptyIdCell, IdCell(sys1_id_of(1)), IdCell(sys2_id_of(1))},
     text : {EmptyTextCell, TextCell(<<"start">>)}]

Sheets ==
    {[exists |-> TRUE, readable |-> TRUE, rows |-> rows] :
        rows \in SeqsUpTo(SheetRows, MaxRows)}
    \cup {[exists |-> TRUE, readable |-> FALSE, rows |-> <<>>]}

FileRequests ==
    {[kind |-> "file", file |-> f, raw_content |-> <<>>] : f \in Sheets}

ShortLines == {<<" ">>, <<"start">>}

\* request.form.get('raw_content') is a non-empty string
RawRequests ==
    {[kind |-> "raw_content", file |-> NoFile, raw_content |-> c] :
        c \in SeqsUpTo(ShortLines, MaxLines) \ {<<>>}}

OtherRequests ==
    {[kind |-> k, file |-> NoFile, raw_content |-> <<>>] :
        k \in {"automatic_file", "session"}}

Agent2Requests == FileRequests \cup RawRequests \cup OtherRequests

NoPassive ==
    [passive |-> FALSE, head_verb |-> FALSE, raises |-> FALSE,
     classifier |-> NotLoaded]

\* the port reports no passive voice in any requirement the agent reads
NoPassives(request) ==
    IF request.kind = "automatic_file" /\ ~sys1_file.exists THEN <<>>
    ELSE [i \in 1..Len(_read_sys1_input(agent2_input(request)).reqs) |->
             NoPassive]

\* an existing and a missing SYS.2 id
Sys2UpdateIds == {sys2_id_of(1), sys2_id_of(MaxLines + 2)}

StatusUpdates == {[req_status |-> st] : st \in StatusInputs}

(***************************************************************************)
(* The session: derivation runs and status updates, on short texts.        *)
(***************************************************************************)
Next ==
    \/ \E all_text \in UploadTexts :
           upload_file(all_text, NoRootVerb(all_text))
    \/ \E id \in Sys1UpdateIds, st \in StatusInputs :
           update_requirement_status(id, st)
    \/ \E request \in Agent2Requests :
           process_sys1_for_agent2(request, NoPassives(request))
    \/ \E id \in Sys2UpdateIds, updates \in StatusUpdates :
           update_sys2_requirement(id, updates)

Spec == Init /\ [][Next]_vars

(***************************************************************************)
(* Derivation and editing of SYS.2 texts that mention identifiers.         *)
(***************************************************************************)
MentionTokens == {"start", "SYS.1.A", "SYS.1.A,", "SYS.2.B"}

MentionLines == SeqsUpTo(MentionTokens, MaxTokens) \ {<<>>}

\* one line of up to MaxTokens tokens, or two lines of one token
MentionContents ==
    {<<l>> : l \in MentionLines}
    \cup {<< <<a>>, <<b>> >> : a, b \in MentionTokens}

MentionRequests ==
    {[kind |-> "raw_content", file |-> NoFile, raw_content |-> c] :
        c \in MentionContents}

TextUpdates ==
    {[sys2_requirement |-> <<t>>] : t \in {"start", "SYS.1.A", "SYS.2.B"}}

NextDerive ==
    \/ \E request \in MentionRequests :
           process_sys1_for_agent2(request, NoPassives(request))
    \/ \E updates \in TextUpdates :
           update_sys2_requirement(sys2_id_of(1), updates)

SpecDerive == Init /\ [][NextDerive]_vars

(***************************************************************************)
(* The elicitation agent on texts of several lines.                        *)
(***************************************************************************)
\* a plain line, a blank line, a padded line, a labelled line, a line with
\* a colon and no label, a line whose label has no digits
ExtractLines ==
    {<<"start">>, <<" ">>, <<" ", "start", " ">>,
     <<"CUST_REQ-009", ":", "start">>, <<"note", ":", "start">>,
     <<"Cust_Req-x", ":", "start">>}

ExtractTexts == SeqsUpTo(ExtractLines, MaxExtractLines)

NextElicit ==
    \E all_text \in ExtractTexts :
        call_ElicitationAgent_process(all_text, NoRootVerb(all_text))

SpecElicit == Init /\ [][NextElicit]_vars

(***************************************************************************)
(* The SYS.2 agent on batches and on texts that hold rule keywords.        *)
(***************************************************************************)
RuleTokens ==
    {"start", "shall", "should", "may", "assume", "limit", "critical",
     "important", "optional", "verify", "system test", "analysis", "review"}

\* raw texts of one line of up to MaxTokens tokens
RuleInputs ==
    {[source |-> "raw_text", file |-> NoFile, raw_content |-> <<l>>] :
        l \in SeqsUpTo(RuleTokens, MaxTokens) \ {<<>>}}

BatchLines == {<<" ">>, <<"start">>, <<" ", "shall">>}

BatchRows ==
    {[id |-> IdCell(sys1_id_of(1)), text |-> TextCell(<<"start">>)],
     [id |-> IdCell(sys1_id_of(2)), text |-> TextCell(<<" ">>)],
     [id |-> IdCell(sys1_id_of(3)), text |-> EmptyTextCell],
     [id |-> IdCell(sys1_id_of(4)), text |-> TextCell(<<"shall">>)]}

\* raw texts and sheets of up to MaxBatch requirements, a sheet that cannot
\* be read and a path with no file
BatchInputs ==
    {[source |-> "raw_text", file |-> NoFile, raw_content |-> c] :
        c \in SeqsUpTo(BatchLines, MaxBatch)}
    \cup {[source |-> "upload",
           file |-> [exists |-> TRUE, readable |-> TRUE, rows |-> rows],
           raw_content |-> <<>>] : rows \in SeqsUpTo(BatchRows, MaxBatch)}
    \cup {[source |-> "upload", file |-> f, raw_content |-> <<>>] :
             f \in {NoFile, [exists |-> TRUE, readable |-> FALSE,
                             rows |-> <<>>]}}

PortFailure ==
    [passive |-> FALSE, head_verb |-> FALSE, raises |-> TRUE,
     classifier |-> NotLoaded]

\* the port answers for the requirements read from input_data: it works on
\* all of them, or fails on one
PortAnswers(input_data) ==
    LET n == Len(_read_sys1_input(input_data).reqs) IN
    {[i \in 1..n |-> NoPassive]}
    \cup {[i \in 1..n |-> IF i = k THEN PortFailure ELSE NoPassive] :
             k \in 1..n}

NextSys2 ==
    \/ \E input_data \in RuleInputs :
           call_process_sys1_input(
               input_data,
               [i \in 1..Len(_read_sys1_input(input_data).reqs) |-> NoPassive])
    \/ \E input_data \in BatchInputs :
           \E parses \in PortAnswers(input_data) :
               call_process_sys1_input(input_data, parses)

SpecSys2 == Init /\ [][NextSys2]_vars

(***************************************************************************)
(* Rewriting one SYS.1 text under every answer of the port and of the       *)
(* classifier.                                                              *)
(***************************************************************************)
RewriteTokens == {"start", "may", "shall", "[Technical Review: checked]"}

RewriteInputs ==
    {[source |-> "raw_text", file |-> NoFile, raw_content |-> <<l>>] :
        l \in SeqsUpTo(RewriteTokens, MaxTokens) \ {<<>>}}

\* the pipeline is not loaded, raises, answers nothing, or answers a label
ClassifierAnswers ==
    {NotLoaded,
     [loaded |-> TRUE, raises |-> TRUE, results |-> <<>>],
     [loaded |-> TRUE, raises |-> FALSE, results |-> <<>>]}
    \cup {[loaded |-> TRUE, raises |-> FALSE,
           results |-> <<[label |-> label]>>] :
             label \in {"functional", "Non-Functional", "performance",
                        "assumption", "system constraint", "limit",
                        "POSITIVE"}}

\* head_verb is read only when passive voice was found
RewriteParses ==
    {parse \in [passive : BOOLEAN, head_verb : BOOLEAN, raises : {FALSE},
                classifier : ClassifierAnswers] :
        parse.head_verb => parse.passive}

NextRewrite ==
    \/ \E input_data \in RewriteInputs, parse \in RewriteParses :
           call_process_sys1_input(input_data, <<parse>>)
    \/ \E input_data \in RewriteInputs, parse \in RewriteParses :
           call_process_sys1_input_twice(input_data, <<parse>>)
    \/ \E requirement_text \in SeqsUpTo(RewriteTokens, MaxTokens) \ {<<>>},
          classifier \in ClassifierAnswers :
           call_determine_classification(requirement_text, classifier)

SpecRewrite == Init /\ [][NextRewrite]_vars

(***************************************************************************)
(* Editing derived SYS.2 requirements: any field may be sent as an update.  *)
(***************************************************************************)
EditRequests ==
    {[kind |-> "raw_content", file |-> NoFile, raw_content |-> c] :
        c \in SeqsUpTo({<<"start">>}, MaxCases) \ {<<>>}}

\* request.get_json()['updates']: a status, a text, a parent id, an own id
EditUpdates ==
    {[req_status |-> "Approved"], [sys2_requirement |-> <<"shall">>],
     [sys1_id |-> sys1_id_of(1)], [sys2_id |-> sys2_id_of(MaxCases + 1)]}

EditIds == {sys2_id_of(n) : n \in 1..(MaxCases + 1)}

NextEdit ==
    \/ \E request \in EditRequests :
           process_sys1_for_agent2(request, NoPassives(request))
    \/ \E id \in EditIds, updates \in EditUpdates :
           update_sys2_requirement(id, updates)

SpecEdit == Init /\ [][NextEdit]_vars

(***************************************************************************)
(* Test-case generation: on the reviewed sheet through the session, or on   *)
(* requirements handed to the agent by a script.                            *)
(***************************************************************************)
TestGenIdCells == {EmptyIdCell, IdCell(sys2_id_of(1)), IdCell(sys2_id_of(2))}

TestGenTextCells == {EmptyTextCell, TextCell(<<"start">>)}

TestGenRows ==
    {[id |-> id, text |-> text, priority |-> priority] :
        id \in TestGenIdCells, text \in TestGenTextCells,
        priority \in {EmptyIdCell, IdCell("High")}}

TestGenFiles ==
    {NoFile, [exists |-> TRUE, readable |-> FALSE, rows |-> <<>>]}
    \cup {[exists |-> TRUE, readable |-> TRUE, rows |-> rows] :
             rows \in SeqsUpTo(TestGenRows, MaxCases)}

\* requirement dicts with and without each key
TestGenRequirements ==
    {id @@ text @@ priority :
        id \in {<<>>, "SYS.2 Req. ID" :> sys2_id_of(1)},
        text \in {<<>>, "SYS.2 System Requirement" :> <<"start">>},
        priority \in {<<>>, "Priority" :> "High", "Priority" :> "Low"}}

NextTestGen ==
    \/ /\ call = NoCall
       /\ \E file \in TestGenFiles : agent4_load_sys2(file)
    \/ /\ last.op = "init"
       /\ \E requirements \in SeqsUpTo(TestGenRequirements, MaxCases) :
              call_generate_test_cases(requirements)

SpecTestGen == Init /\ [][NextTestGen]_vars

(***************************************************************************)
(* The review agent on requirement texts and on files.                     *)
(***************************************************************************)
ReviewTokens ==
    {"start", "shall", "shall be tested", "can be measured", "milliseconds",
     "%", "flexible", "robust", "it", "they", "with", "review"}

ReviewTexts == SeqsUpTo(ReviewTokens, MaxTokens) \ {<<>>}

ReviewRequirements ==
    {[sys2_id |-> sys2_id_of(1), sys2_requirement |-> t] : t \in ReviewTexts}

ReviewFiles ==
    {NoFile,
     [exists |-> TRUE, readable |-> FALSE, rows |-> <<>>],
     [exists |-> TRUE, readable |-> TRUE, rows |-> <<>>]}
    \cup {[exists |-> TRUE, readable |-> TRUE, rows |-> <<r>>] :
             r \in {q \in ReviewRequirements : Len(q.sys2_requirement) = 1}}

\* requirements with and without an id
ReviewBatchRequirements ==
    {id @@ [sys2_requirement |-> <<t>>] :
        id \in {<<>>, [sys2_id |-> sys2_id_of(1)], [sys2_id |-> sys2_id_of(2)]},
        t \in {"start", "flexible"}}

\* requirements with and without a status
ReviewStatusRequirements ==
    {status @@ [sys2_id |-> sys2_id_of(1), sys2_requirement |-> <<"start">>] :
        status \in {<<>>} \cup {[req_status |-> st] : st \in StatusInputs}}

\* requirements handed over, or a path to read them from
ReviewInputs ==
    {[requirements |-> <<r>>, file_path |-> "", file |-> NoFile] :
        r \in ReviewRequirements}
    \cup {[requirements |-> reqs, file_path |-> "", file |-> NoFile] :
             reqs \in (SeqsUpTo(ReviewBatchRequirements, MaxCases)
                       \cup SeqsUpTo(ReviewStatusRequirements, MaxCases))
                          \ {<<>>}}
    \cup {[requirements |-> <<>>, file_path |-> "sys2_requirements.xlsx",
           file |-> f] : f \in ReviewFiles}
    \cup {[requirements |-> <<>>, file_path |-> path, file |-> NoFile] :
             path \in {"", "sys2_requirements.csv"}}

NextReview ==
    \E input_data \in ReviewInputs : call_ReviewAgent_process(input_data)

SpecReview == Init /\ [][NextReview]_vars

(***************************************************************************)
(* Properties.                                                             *)
(***************************************************************************)
LifecycleStates == {"Draft", "Reviewed", "Approved", "Rejected"}

Sanctioned ==
    {<<"Draft", "Reviewed">>, <<"Draft", "Approved">>, <<"Draft", "Rejected">>,
     <<"Reviewed", "Approved">>, <<"Reviewed", "Rejected">>}

StatusUpdateOps == {"update_requirement_status", "update_sys2_requirement"}

DerivationOps == {"upload_file", "process_sys1_for_agent2"}

AfterElicitation == last.op = "upload_file" /\ last.status = "success"

AfterSys2Run == last.op = "process_sys1_for_agent2" /\ last.status = "success"

\* a status-update step moves every requirement of reqs along a sanctioned
\* transition or leaves its status alone
SanctionedStep(old, new) ==
    \A i \in 1..Len(old) :
        \/ new[i].req_status = old[i].req_status
        \/ <<old[i].req_status, new[i].req_status>> \in Sanctioned

\* C1: a status update changes the status of a SYS.1 or SYS.2 requirement
\* only along Draft->Reviewed, Draft->Approved, Draft->Rejected,
\* Reviewed->Approved or Reviewed->Rejected; so Rejected stays Rejected and
\* nothing returns to Draft.
C1_OnlySanctionedTransitions ==
    [][last'.op \in StatusUpdateOps =>
          /\ SanctionedStep(sys1_reqs, sys1_reqs')
          /\ SanctionedStep(sys2_reqs, sys2_reqs')]_vars

\* C2: the req_status of every SYS.1 and SYS.2 requirement is one of Draft,
\* Reviewed, Approved, Rejected in every reachable state.
C2_StatusInLifecycle ==
    /\ \A i \in 1..Len(sys1_reqs) : sys1_reqs[i].req_status \in LifecycleStates
    /\ \A i \in 1..Len(sys2_reqs) : sys2_reqs[i].req_status \in LifecycleStates

\* C3: right after a derivation run every requirement it emitted is Draft,
\* whatever the status of the requirement it was derived from.
C3_DerivedIsDraft ==
    /\ AfterElicitation =>
           \A i \in 1..Len(sys1_reqs) : sys1_reqs[i].req_status = "Draft"
    /\ AfterSys2Run =>
           \A i \in 1..Len(sys2_reqs) : sys2_reqs[i].req_status = "Draft"

\* a SYS.2 requirement was just derived from a SYS.1 requirement that is
\* Rejected
C3_Witness ==
    /\ AfterSys2Run
    /\ \E i \in 1..Len(sys2_reqs), k \in 1..Len(sys1_reqs) :
           /\ sys1_reqs[k].sys1_id = sys2_reqs[i].sys1_id
           /\ sys1_reqs[k].req_status = "Rejected"

\* the derivation links: customer -> SYS.1 and SYS.1 -> SYS.2, as id pairs
DerivationLinks ==
    UNION {{<<sys1_reqs[i].customer_trace_ids[k], sys1_reqs[i].sys1_id>> :
               k \in 1..Len(sys1_reqs[i].customer_trace_ids)} :
           i \in 1..Len(sys1_reqs)}
    \cup {<<sys2_reqs[i].sys1_id, sys2_reqs[i].sys2_id>> :
             i \in 1..Len(sys2_reqs)}

\* the pairs of ids joined by a path of links of E
Reach(E) ==
    LET step(P) == P \cup UNION {{<<x[1], y[2]>> : y \in {v \in E : v[1] = x[2]}}
                                    : x \in P}
        R[n \in 0..Cardinality(E)] == IF n = 0 THEN E ELSE step(R[n - 1])
    IN  R[Cardinality(E)]

\* the number of derivation records that name child as their child
Parents(child) ==
    Cardinality({i \in 1..Len(sys1_reqs) :
                    sys1_reqs[i].sys1_id = child
                    /\ sys1_reqs[i].customer_trace_ids # <<>>})
    + Cardinality({i \in 1..Len(sys2_reqs) : sys2_reqs[i].sys2_id = child})

\* C4: after derivation runs the derivation links hold no cycle and no
\* self-loop, and every requirement has at most one derivation parent.
C4_DerivationForest ==
    last.op \in DerivationOps =>
        /\ \A e \in Reach(DerivationLinks) : e[1] # e[2]
        /\ \A e \in DerivationLinks : Parents(e[2]) <= 1

CustomerIds == {customer_reqs[i].customer_id : i \in 1..Len(customer_reqs)}

Sys1Ids == {sys1_reqs[i].sys1_id : i \in 1..Len(sys1_reqs)}

Sys2Ids == {sys2_reqs[i].sys2_id : i \in 1..Len(sys2_reqs)}

\* C5: every SYS.1 requirement the elicitation returns has a non-empty
\* customer_trace_ids and traces to an extracted customer requirement.
C5_EverySys1IsTraced ==
    AfterElicitation =>
        \A i \in 1..Len(sys1_reqs) :
            /\ sys1_reqs[i].customer_trace_ids # <<>>
            /\ Range(sys1_reqs[i].customer_trace_ids) \subseteq CustomerIds

\* C6: every parent reference stored by a derivation run names a requirement
\* of the source tier (the session's, or the sheet the run read); none is
\* empty or invented.
C6_ParentExists ==
    /\ AfterElicitation =>
           \A i \in 1..Len(sys1_reqs) :
               Range(sys1_reqs[i].customer_trace_ids) \subseteq CustomerIds
    /\ AfterSys2Run =>
           \A i \in 1..Len(sys2_reqs) :
               /\ sys2_reqs[i].sys1_id # ""
               /\ sys2_reqs[i].sys1_id \in Sys1Ids \cup last.source_ids

\* the ids a mention can resolve to: every requirement of the session and
\* the SYS.1 requirements the last run read
ExistingIds ==
    CustomerIds \cup Sys1Ids \cup Sys2Ids
    \cup {sys2_reqs[i].sys1_id : i \in 1..Len(sys2_reqs)}

\* C7: every link of the dependency list stored by a run has a 'to' id that
\* names an existing requirement; a link to a nonexistent id is never stored.
C7_LinkTargetExists ==
    AfterSys2Run =>
        \A k \in 1..Len(dependencies) : dependencies[k].to \in ExistingIds

\* the targets of the stored links that originate from id
StoredTargets(id) ==
    {dependencies[k].to :
        k \in {n \in 1..Len(dependencies) : dependencies[n].from = id}}

\* C8: the stored mention links that originate from a requirement are
\* exactly the tier identifiers found in its current text, other than the
\* requirement itself; no link implied only by an earlier text remains.
C8_LinksFollowText ==
    \A i \in 1..Len(sys2_reqs) :
        StoredTargets(sys2_reqs[i].sys2_id)
            = Range(potential_ids_in_text(sys2_reqs[i].sys2_requirement))
              \ {sys2_reqs[i].sys2_id}

\* C9: the dependency list produced by a run holds no two links with the
\* same (from, to, label), also for a text that mentions one identifier
\* several times, and no link from a requirement to itself.
C9_LinksDistinct ==
    AfterSys2Run =>
        /\ \A j, k \in 1..Len(dependencies) :
               j # k => dependencies[j] # dependencies[k]
        /\ \A k \in 1..Len(dependencies) :
               dependencies[k].from # dependencies[k].to

\* a requirement whose text mentions one identifier twice has a link to it
C9_Witness ==
    /\ AfterSys2Run
    /\ \E i \in 1..Len(sys2_reqs) :
           LET ids == potential_ids_in_text(sys2_reqs[i].sys2_requirement)
           IN  /\ \E m, n \in 1..Len(ids) : m # n /\ ids[m] = ids[n]
               /\ StoredTargets(sys2_reqs[i].sys2_id) # {}

\* the counter values a run of the bounded inputs can reach
Sys2Counters == 1..(MaxLines + min_sys1_count)

\* C10: the sys2_id values one run emits are pairwise distinct and strictly
\* increasing in emission order, also when source requirements are skipped.
C10_IdsIncrease ==
    AfterSys2Run =>
        \A i, j \in 1..Len(sys2_reqs) :
            i < j =>
                /\ sys2_reqs[i].sys2_id # sys2_reqs[j].sys2_id
                /\ \E m, n \in Sys2Counters :
                       /\ m < n
                       /\ sys2_reqs[i].sys2_id = sys2_id_of(m)
                       /\ sys2_reqs[j].sys2_id = sys2_id_of(n)

\* a run emitted two requirements and skipped the blank line between them
C10_Witness ==
    /\ AfterSys2Run
    /\ Len(sys2_reqs) >= 2
    /\ \E i \in 1..Len(sys2_reqs) :
           /\ i > 1
           /\ sys2_reqs[i].sys2_id = sys2_id_of(i)
           /\ sys2_reqs[i].sys1_id = raw_id(i + 1)

AfterElicitationCall == call.method = "ElicitationAgent.process"

\* the lines of a text that are not blank, in order
NonBlankLines(text) == SelectSeq(text, LAMBDA l : ~IsBlankLine(l))

\* t is what remains of line l after dropping tokens at its start and
\* trimming
IsTrimmedRest(t, l) ==
    \E k \in 0..Len(l) : t = strip(SubSeq(l, k + 1, Len(l)))

\* C11: the extractor returns exactly one customer requirement per non-empty
\* line, in encounter order, with ids CUST_REQ-001, CUST_REQ-002, ... by
\* position (whatever label the line carries); the text of the i-th
\* requirement comes from the i-th non-empty line alone.
C11_OnePerLine ==
    AfterElicitationCall =>
        LET lines == NonBlankLines(call.input)
            custs == call.result.customer_requirements
        IN  /\ Len(custs) = Len(lines)
            /\ \A i \in 1..Len(custs) :
                   /\ custs[i].customer_id = "CUST_REQ-" \o Fmt03(i)
                   /\ IsTrimmedRest(custs[i].customer_requirement, lines[i])

\* a text with a blank line before a line labelled CUST_REQ-009, which is
\* numbered by its position
C11_Witness ==
    /\ AfterElicitationCall
    /\ \E i \in 1..Len(call.input) : IsBlankLine(call.input[i])
    /\ \E i \in 1..Len(call.result.customer_requirements) :
           /\ NonBlankLines(call.input)[i][1] = "CUST_REQ-009"
           /\ call.result.customer_requirements[i].customer_id = "CUST_REQ-002"

\* the trimmed line matches ^CUST_REQ-<digits><optional whitespace>:
MatchesLabel(l) ==
    /\ Len(l) >= 2
    /\ l[1] = "CUST_REQ-009"
    /\ \/ l[2] = ":"
       \/ Len(l) >= 3 /\ l[2] = " " /\ l[3] = ":"

\* the trimmed text after the first ':' of the line
AfterLabel(l) == strip(SubSeq(l, find_colon(l, 1) + 1, Len(l)))

\* C12: the stored text of a line is the text after its label exactly when
\* the line matches ^CUST_REQ-<digits><optional whitespace>: ; every other
\* non-empty line is stored with its full trimmed text.
C12_LabelStripped ==
    AfterElicitationCall =>
        LET lines == NonBlankLines(call.input)
            custs == call.result.customer_requirements
        IN  \A i \in 1..Len(custs) :
                custs[i].customer_requirement =
                    IF MatchesLabel(strip(lines[i]))
                    THEN AfterLabel(strip(lines[i]))
                    ELSE strip(lines[i])

AfterSys2Call == call.method = "Sys2Agent.process_sys1_input"

IsWhitespaceOnly(text) == \A k \in 1..Len(text) : text[k] = " "

\* the source requirements of a direct call, as [id, text, blank]: the rows
\* of the sheet, or the lines of the raw text (which carry no id)
SourceRequirements(input_data) ==
    IF input_data.source = "raw_text"
    THEN [i \in 1..Len(input_data.raw_content) |->
             [id |-> "", text |-> strip(input_data.raw_content[i]),
              blank |-> IsWhitespaceOnly(input_data.raw_content[i])]]
    ELSE [i \in 1..Len(input_data.file.rows) |->
             [id |-> id_of_cell(input_data.file.rows[i].id),
              text |-> text_of_cell(input_data.file.rows[i].text),
              blank |-> IsWhitespaceOnly(
                            text_of_cell(input_data.file.rows[i].text))]]

\* the input without its empty and whitespace-only requirements
WithoutBlanks(input_data) ==
    IF input_data.source = "raw_text"
    THEN [input_data EXCEPT !.raw_content =
             SelectSeq(@, LAMBDA l : ~IsWhitespaceOnly(l))]
    ELSE [input_data EXCEPT !.file.rows =
             SelectSeq(@, LAMBDA r : ~IsWhitespaceOnly(text_of_cell(r.text)))]

\* a result without the ids of its sources (a raw line has none of its own),
\* in the records and where the rationale quotes them
Derived(result) ==
    [result EXCEPT !.sys2_requirements =
        [i \in 1..Len(@) |->
            [@[i] EXCEPT !.sys1_id = "", !.rationale[2] = ""]]]

ReadableInput(input_data) ==
    \/ input_data.source = "raw_text"
    \/ input_data.file.exists /\ input_data.file.readable

PortWorks(parses) == \A i \in 1..Len(parses) : ~parses[i].raises

EmittedIds(result) ==
    {result.sys2_requirements[i].sys2_id :
        i \in 1..Len(result.sys2_requirements)}

C14_SiblingsSurvive ==
    (AfterSys2Call /\ ReadableInput(call.input.input_data)
       /\ ~PortWorks(call.input.parses)
       /\ \E i \in 1..Len(call.input.parses) : ~call.input.parses[i].raises) =>
        LET input_data == call.input.input_data
            kept == SelectSeq(SourceRequirements(input_data),
                              LAMBDA r : ~r.blank)
            reqs == call.result.sys2_requirements
        IN  /\ call.result.status = "success"
            /\ \A i \in 1..Len(kept) :
                   ~call.input.parses[i].raises =>
                       \E j \in 1..Len(reqs) :
                           /\ reqs[j].sys1_requirement = kept[i].text
                           /\ input_data.source # "raw_text" =>
                                  reqs[j].sys1_id = kept[i].id

AfterReviewCall == call.method = "ReviewAgent.process"

\* the stage has to read its source from a file that is missing or cannot be
\* read
SourceUnavailable(file) == ~file.exists \/ ~file.readable

\* C15: a stage whose source file is missing or unreadable returns status
\* 'error', never status 'success' with an empty requirement list; this holds
\* for Sys2Agent.process_sys1_input and for ReviewAgent.process.
C15_MissingSourceIsError ==
    /\ (AfterSys2Call /\ call.input.input_data.source = "upload"
          /\ SourceUnavailable(call.input.input_data.file)) =>
           call.result.status = "error"
    /\ (AfterReviewCall /\ call.input.requirements = <<>>
          /\ endswith_excel(call.input.file_path)
          /\ SourceUnavailable(call.input.file)) =>
           call.result.status = "error"

\* the fixed text the template of a type puts before the core text, <<>>
\* for a type without a template
TemplatePrefix(type) ==
    CASE type \in {"Functional", "Non-functional"} -> <<"The system shall">>
      [] type = "Assumption" -> <<"It is assumed that">>
      [] type = "Constraint" ->
             <<"The system is subject to the constraint that">>
      [] OTHER -> <<>>

\* the core texts a source text can be annotated to: the trimmed text,
\* a passive-voice marker before it or not, a review note after it or not
AnnotatedCores(source_text) ==
    {pre \o strip(source_text) \o post :
        pre \in {<<>>, <<"[Passive voice considered]">>,
                 <<"[Passive voice detected]">>},
        post \in {<<>>, <<"[Review: Potential ambiguity marker detected.]">>}}

SuccessfulSys2Call == AfterSys2Call /\ call.result.status = "success"

\* C16: the derived SYS.2 text is the template of the detected type filled
\* with the annotated core text: 'The system shall ...' for Functional and
\* Non-functional, 'It is assumed that ...' for Assumption, 'The system is
\* subject to the constraint that ...' for Constraint, the core text alone
\* for any other type.
C16_TemplateOfType ==
    SuccessfulSys2Call =>
        \A i \in 1..Len(call.result.sys2_requirements) :
            LET req == call.result.sys2_requirements[i] IN
            \E core \in AnnotatedCores(req.sys1_requirement) :
                req.sys2_requirement = TemplatePrefix(req.type) \o core

\* the priority rule: first match on the keywords the text contains
PriorityRule(text) ==
    LET found == text_keywords(text) IN
    IF found \cap {"must", "shall", "critical", "safety"} # {} THEN "High"
    ELSE IF found \cap {"should", "important"} # {} THEN "Medium"
    ELSE IF found \cap {"could", "nice to have", "optional"} # {} THEN "Low"
    ELSE "Medium"

\* C17: the priority of every derived requirement is the first-match result
\* of the rule on its text: High for must, shall, critical, safety; else
\* Medium for should, important; else Low for could, nice to have, optional;
\* else Medium.  For a SYS.2 requirement the rule may read the source text
\* or the derived text.
C17_PriorityRule ==
    /\ AfterElicitationCall =>
           \A i \in 1..Len(call.result.sys1_requirements) :
               LET req == call.result.sys1_requirements[i] IN
               req.priority = PriorityRule(req.sys1_requirement)
    /\ SuccessfulSys2Call =>
           \A i \in 1..Len(call.result.sys2_requirements) :
               LET req == call.result.sys2_requirements[i] IN
               req.priority \in {PriorityRule(req.sys1_requirement),
                                 PriorityRule(req.sys2_requirement)}

\* the verification rule: first match on the keywords the text contains
VerificationRule(text) ==
    LET found == text_keywords(text) IN
    IF found \cap {"system test", "qualification test", "acceptance test"} # {}
    THEN "System Qualification Test (SYS.5)"
    ELSE IF found \cap {"test", "verify", "validate", "check"} # {} THEN "Test"
    ELSE IF found \cap {"analyze", "analysis", "study"} # {} THEN "Analysis"
    ELSE IF found \cap {"inspect", "inspection", "review"} # {}
    THEN "Inspection"
    ELSE "Test (Default)"

\* C18: the verification_mapping of every derived SYS.2 requirement is the
\* first-match result of the rule on its text: System Qualification Test for
\* system test, qualification test, acceptance test; else Test for test,
\* verify, validate, check; else Analysis for analyze, analysis, study; else
\* Inspection for inspect, inspection, review; else the Test default.
C18_VerificationRule ==
    SuccessfulSys2Call =>
        \A i \in 1..Len(call.result.sys2_requirements) :
            LET req == call.result.sys2_requirements[i] IN
            /\ req.verification_mapping = VerificationRule(req.sys2_requirement)
            /\ call.result.verification_mapping[req.sys2_id]
                   = req.verification_mapping

SuccessfulReviewCall == AfterReviewCall /\ call.result.status = "success"

ContainsVerificationPhrase(text) ==
    \E phrase \in {"shall be tested", "shall be verified", "can be measured",
                   "is measurable", "can be quantified"} :
        phrase \in text_keywords(text)

ContainsQuantifiableUnit(text) ==
    \E unit \in {"seconds", "milliseconds", "%", "kbps", "mbps"} :
        unit \in text_keywords(text)

\* C19: for every requirement text the compliance check yields
\* verification-criteria-present iff the text contains one of the five
\* verification phrases, testable iff verification-criteria-present or the
\* text contains a quantifiable unit, and compliant iff both are true.
C19_ComplianceRule ==
    SuccessfulReviewCall =>
        \A i \in 1..Len(call.result.compliance_results) :
            LET text ==
                    call.result.sys2_requirements_for_review[i].sys2_requirement
                res == call.result.compliance_results[i]
            IN  /\ {res.is_verification_criteria_okay, res.testable,
                    res.ireb_compliant} \subseteq {"Pass", "Fail"}
                /\ res.is_verification_criteria_okay = "Pass"
                       <=> ContainsVerificationPhrase(text)
                /\ res.testable = "Pass"
                       <=> \/ ContainsVerificationPhrase(text)
                           \/ ContainsQuantifiableUnit(text)
                /\ res.ireb_compliant = "Pass"
                       <=> /\ res.is_verification_criteria_okay = "Pass"
                           /\ res.testable = "Pass"

\* a reviewed text with a quantifiable unit and no verification phrase is
\* testable and not compliant
C19_Witness ==
    /\ SuccessfulReviewCall
    /\ \E i \in 1..Len(call.result.compliance_results) :
           LET text ==
                   call.result.sys2_requirements_for_review[i].sys2_requirement
               res == call.result.compliance_results[i]
           IN  /\ ContainsQuantifiableUnit(text)
               /\ ~ContainsVerificationPhrase(text)
               /\ res.testable = "Pass"
               /\ res.ireb_compliant = "Fail"

ContainsVagueTerm(text) ==
    \E term \in {"flexible", "efficient", "robust", "appropriate", "adequate"} :
        term \in text_keywords(text)

ContainsAmbiguousPronoun(text) ==
    \E pronoun \in {"it", "this", "they"} : pronoun \in text_keywords(text)

\* C20: for every requirement text the linguistic check reports one verdict:
\* Fail whenever the text contains a vague term, also when it contains an
\* ambiguous pronoun as well; Needs Review only when it contains an ambiguous
\* pronoun and no vague term; Pass otherwise.
C20_VagueDominates ==
    SuccessfulReviewCall =>
        \A i \in 1..Len(call.result.linguistic_analysis) :
            LET text ==
                    call.result.sys2_requirements_for_review[i].sys2_requirement
                verdict == call.result.linguistic_analysis[i].unambiguity
            IN  verdict = IF ContainsVagueTerm(text) THEN "Fail"
                          ELSE IF ContainsAmbiguousPronoun(text)
                          THEN "Needs Review"
                          ELSE "Pass"

AfterGeneration == call.method = "TestGenAgent.generate_test_cases"

\* the test case the requirement req at position idx has to get
IsTestCaseOf(tc, req) ==
    LET text == dict_get(req, "SYS.2 System Requirement", <<>>) IN
    /\ "SYS.2 Req. ID" \in DOMAIN req
           => tc["SYS.2 Req. ID"] = req["SYS.2 Req. ID"]
    /\ tc["SYS.2 System Requirement"] = text
    /\ tc["Description"] = <<"Validate: ">> \o text
    /\ tc["Expected Results"] = <<"System meets the requirement: ">> \o text
    /\ tc["Priority"] = IF "Priority" \in DOMAIN req THEN req["Priority"]
                        ELSE "Medium"

OnePerRequirement(test_cases, requirements) ==
    /\ Len(test_cases) = Len(requirements)
    /\ \A i \in 1..Len(requirements) :
           IsTestCaseOf(test_cases[i], requirements[i])

NoSourceIdTwice(test_cases) ==
    \A i, j \in 1..Len(test_cases) :
        test_cases[i]["SYS.2 Req. ID"] = test_cases[j]["SYS.2 Req. ID"]
            => i = j

\* C21: generate_test_cases returns one test case per input requirement, in
\* the same order, with the id and text of that requirement, Description
\* 'Validate: ' + text, Expected Results 'System meets the requirement: ' +
\* text and Priority copied or Medium when absent; the stored test cases are
\* those of the last generation, and no source id has two of them.
C21_OneTestCasePerRequirement ==
    /\ AfterGeneration
           => /\ OnePerRequirement(call.result, call.input)
              /\ NoSourceIdTwice(call.result)
    /\ /\ OnePerRequirement(agent4_test_cases, agent4_requirements)
       /\ NoSourceIdTwice(agent4_test_cases)

\* the returned and the stored list alone: one test case per requirement
GeneratedOnePerRequirement ==
    /\ AfterGeneration => OnePerRequirement(call.result, call.input)
    /\ OnePerRequirement(agent4_test_cases, agent4_requirements)

\* the derivation link of each stored SYS.2 requirement, in list order
StoredLinks(reqs) ==
    [i \in 1..Len(reqs) |-> <<reqs[i].sys2_id, reqs[i].sys1_id>>]

\* C22: an edit or status update of a SYS.2 requirement leaves the sys2_id
\* and the parent sys1_id of every stored requirement as they were set at
\* derivation.
C22_LinkPermanent ==
    [][last'.op = "update_sys2_requirement"
           => StoredLinks(sys2_reqs') = StoredLinks(sys2_reqs)]_vars

AfterSys2CallTwice == call.method = "Sys2Agent.process_sys1_input twice"

\* what the claim compares of a run: the emitted requirements (text, id,
\* metadata, rationale) and the maps returned with them
RunOutput(result) ==
    [status |-> result.status,
     sys2_requirements |-> result.sys2_requirements,
     classification |-> result.classification,
     verification_mapping |-> result.verification_mapping]

IsInfix(sub, text) ==
    \E k \in 0..(Len(text) - Len(sub)) :
        \A i \in 1..Len(sub) : text[k + i] = sub[i]

PassiveMarkers == {"[Passive voice detected]", "[Passive voice considered]"}

\* the one requirement of a successful single-text call and its port answer
OneDerived ==
    /\ SuccessfulSys2Call
    /\ Len(call.result.sys2_requirements) = 1
    /\ Len(call.input.parses) = 1

\* C24: when passive voice is detected the core text is the source text
\* prefixed with '[Passive voice detected]', whatever the part of speech of
\* the head token; when it is not detected no passive marker is added.
C24_PassiveMarker ==
    OneDerived =>
        LET req == call.result.sys2_requirements[1] IN
        IF call.input.parses[1].passive
        THEN IsInfix(<<"[Passive voice detected]">>
                         \o strip(req.sys1_requirement),
                     req.sys2_requirement)
        ELSE \A i \in 1..Len(req.sys2_requirement) :
                 req.sys2_requirement[i] \notin PassiveMarkers

HasAmbiguityMarker(text) ==
    \E i \in 1..Len(text) :
        lower_tok(text[i]) \in {"may", "can", "might", "possibly", "usually",
                                "generally"}

CarriesReviewNote(text) ==
    \E i \in 1..Len(text) :
        text[i] = "[Review: Potential ambiguity marker detected.]"

\* C25: the '[Review: ...]' suffix is appended iff an ambiguity marker is
\* found and passive voice was not detected; a text flagged for passive
\* voice never carries the Review suffix.
C25_ReviewOnlyWithoutPassive ==
    OneDerived =>
        LET req == call.result.sys2_requirements[1] IN
        CarriesReviewNote(req.sys2_requirement)
            <=> /\ HasAmbiguityMarker(req.sys1_requirement)
                /\ ~call.input.parses[1].passive

ClassificationValues ==
    {"Functional", "Non-functional", "Assumption", "Constraint", "Other", None}

VerificationValues ==
    {"System Qualification Test (SYS.5)", "Test", "Analysis", "Inspection",
     "Test (Default)"}

\* the rationales of the fixed order for a requirement: source id, original
\* text, the review note if the derived text carries one, a classification,
\* a verification method
OrderedRationales(req) ==
    {<<"Derived from SYS.1 requirement", req.sys1_id, ".">>
         \o (<<"Original text:">> \o req.sys1_requirement)
         \o note
         \o <<"Classified as:", classification, ".">>
         \o <<"Verification method:", verification_mapping, ".">> :
        note \in IF CarriesReviewNote(req.sys2_requirement)
                 THEN {<<"Technical review noted:",
                         "Potential ambiguity marker detected.", ".">>,
                       <<"[Review: Potential ambiguity marker detected.]">>}
                 ELSE {<<>>, <<"Technical review noted:", "checked", ".">>},
        classification \in ClassificationValues,
        verification_mapping \in VerificationValues}

\* C26: the rationale of every derived SYS.2 requirement is the source id,
\* the original text, the review note when one was detected during
\* rewriting, the classification and the verification method, in this order;
\* when the derived text carries a Review note the rationale contains it.
C26_RationaleInOrder ==
    SuccessfulSys2Call =>
        \A i \in 1..Len(call.result.sys2_requirements) :
            call.result.sys2_requirements[i].rationale
                \in OrderedRationales(call.result.sys2_requirements[i])

AfterClassification == call.method = "Sys2Agent._determine_classification"

\* the types the label test maps a classifier answer to
MappedTypes(classifier) ==
    LET label == label_keywords(classifier.results[1].label) IN
    {type \in {"Functional", "Non-functional", "Assumption", "Constraint"} :
        label \cap (CASE type = "Functional" -> {"functional", "system"}
                      [] type = "Non-functional" ->
                             {"non-functional", "performance", "security",
                              "usability"}
                      [] type = "Assumption" -> {"assumption", "assume"}
                      [] OTHER -> {"constraint", "restrict", "limit"}) # {}}

\* the classifier is not loaded, raises, answers nothing, or answers a label
\* that maps to none of the four types
ClassifierFails(classifier) ==
    \/ ~classifier.loaded
    \/ classifier.raises
    \/ classifier.results = <<>>
    \/ MappedTypes(classifier) = {}

\* C27: _determine_classification returns the rule-based type whenever the
\* classifier is not loaded, raises, returns an empty result or a label that
\* maps to none of the four types; it always returns a label; the label of
\* the classifier overrides the rule only when it maps to exactly one type.
C27_ClassifierFallback ==
    AfterClassification =>
        LET rule == _determine_type(call.input.requirement_text)
            classifier == call.input.classifier
        IN  /\ call.result \in ClassificationValues \ {None}
            /\ ClassifierFails(classifier) => call.result = rule
            /\ call.result # rule
                   => /\ ~ClassifierFails(classifier)
                      /\ MappedTypes(classifier) = {call.result}

\* C28: the classification and the verification method named in the
\* rationale of an emitted SYS.2 requirement are the values of the record's
\* classification and verification_mapping fields and of the entries stored
\* for its id in the returned maps.
C28_RationaleAgreesWithRecord ==
    SuccessfulSys2Call =>
        \A i \in 1..Len(call.result.sys2_requirements) :
            LET req == call.result.sys2_requirements[i] IN
            /\ IsInfix(<<"Classified as:", req.classification, ".">>,
                       req.rationale)
            /\ IsInfix(<<"Verification method:", req.verification_mapping,
                         ".">>, req.rationale)
            /\ call.result.classification[req.sys2_id] = req.classification
            /\ call.result.verification_mapping[req.sys2_id]
                   = req.verification_mapping

\* the verdict fields the checks compute for a requirement's own text
OwnVerdicts(req) ==
    [is_verification_criteria_okay |->
         is_verification_criteria_okay_status(req_text_of(req)),
     testable |-> testable_status(req_text_of(req)),
     ireb_compliant |->
         ireb_compliant_status(
             is_verification_criteria_okay_status(req_text_of(req)),
             testable_status(req_text_of(req))),
     unambiguity |-> unambiguity_status(req_text_of(req))]

AttachedVerdicts(reviewed) ==
    [is_verification_criteria_okay |-> reviewed.is_verification_criteria_okay,
     testable |-> reviewed.testable,
     ireb_compliant |-> reviewed.ireb_compliant,
     unambiguity |-> reviewed.unambiguity]

\* C29: ReviewAgent.process returns one reviewed record per input
\* requirement, in input order, and the verdict fields attached to each
\* record are the ones computed from that requirement's own text, also when
\* several input requirements share a sys2_id or carry no id.
C29_VerdictsOfOwnText ==
    (SuccessfulReviewCall /\ call.input.requirements # <<>>) =>
        LET requirements == call.input.requirements
            reviewed == call.result.sys2_requirements_for_review
        IN  /\ Len(reviewed) = Len(requirements)
            /\ \A i \in 1..Len(requirements) :
                   /\ req_text_of(reviewed[i]) = req_text_of(requirements[i])
                   /\ AttachedVerdicts(reviewed[i])
                          = OwnVerdicts(requirements[i])

\* the status a requirement is reviewed with: its own, or the default Draft
StatusOf(req) == dict_get(req, "req_status", "Draft")

\* C30: when the statuses of the requirements are lifecycle states, the
\* requirements exported for test-case derivation are exactly those in the
\* state Approved.
C30_ExportsApproved ==
    (/\ SuccessfulReviewCall
     /\ \A i \in 1..Len(call.input.requirements) :
            StatusOf(call.input.requirements[i]) \in LifecycleStates) =>
        call.result.exported
            = SelectSeq(call.result.sys2_requirements_for_review,
                        LAMBDA req : req.req_status = "Approved")

====
